---- MODULE Spec2Model ----
(***************************************************************************)
(* Model of src/main.py: the Pub/Sub-triggered function hello_pubsub that  *)
(* copies the rows of a Google Sheet that lie after a persisted watermark  *)
(* (last_processed_row.json in the bucket) into a Parquet object in the    *)
(* bucket and then appends that object to a BigQuery table.                *)
(*                                                                         *)
(* A sheet row is identified by a number given to it when it is appended   *)
(* to the sheet; on a sheet that only grows, the number of a row is its    *)
(* 1-based position.  Every external call is one atomic step that either   *)
(* takes effect and succeeds, or raises and has no effect.  The column     *)
(* renaming and the numeric-to-text conversion (lines 70-82) change no row *)
(* count and no row order, and are left out.                               *)
(***************************************************************************)
EXTENDS Integers, Sequences, FiniteSets

\* ---------------------------------------------------------------- bounds
\* Rows ever appended to the sheet.
MaxRows == 3
\* Seconds the wall clock can advance (timestamps are 0..MaxClock).
MaxClock == 1
\* Table size beyond which the watermark record is no longer tampered with.
MaxTable == 4

\* Invocations of hello_pubsub that can be in progress at once.
Runs == {1, 2}

VARIABLES
    sheet,               \* rows of the Google Sheet, in sheet order
    nextRow,             \* number the next appended row gets
    clock,               \* wall clock, in whole seconds
    blob,                \* content of gs://BUCKET_NAME/LAST_ROW_FILE
    artifacts,           \* Parquet objects under FOLDER_NAME: name -> rows
    table,               \* the BigQuery table: row -> number of copies in it
    pc,                  \* position of each invocation of hello_pubsub
    outcome,             \* how each invocation ended
    df,                  \* local df: the rows read from the sheet
    row_data,            \* content of the watermark blob as downloaded
    last_processed_row,  \* local last_processed_row
    df_new,              \* local df_new
    parquet_file_name,   \* local parquet_file_name (its timestamp)
    load_output          \* rows the load job appended

vars == <<sheet, nextRow, clock, blob, artifacts, table, pc, outcome, df,
          row_data, last_processed_row, df_new, parquet_file_name,
          load_output>>

shared == <<sheet, nextRow, clock, blob, artifacts, table>>

\* ---------------------------------------------------------------- helpers
Range(s) == {s[i] : i \in DOMAIN s}

Count(r, s) == Cardinality({i \in DOMAIN s : s[i] = r})

\* The numbers sheet rows can have.
Rows == 1..MaxRows

\* Rows in a table, copies counted.
Size(t) ==
    LET RECURSIVE Sum(_)
        Sum(S) == IF S = {} THEN 0
                  ELSE LET r == CHOOSE x \in S : TRUE IN t[r] + Sum(S \ {r})
    IN  Sum(DOMAIN t)

Min(a, b) == IF a < b THEN a ELSE b

Max(a, b) == IF a > b THEN a ELSE b

\* ------------------------------------------------- the watermark record
\* What the blob can hold.  kind:
\*   "absent"        blob.exists() is False
\*   "badjson"       text json.loads rejects
\*   "nonobject"     valid JSON that is not an object ([] , 5, "x")
\*   "nofield"       an object without "last_processed_row"
\*   "int"           {"last_processed_row": val}
\*   "nonint"        an object whose field is a string, null or a float
Absent == [kind |-> "absent", val |-> 0]

BlobContents ==
    {[kind |-> k, val |-> 0] : k \in {"absent", "badjson", "nonobject", "nofield", "nonint"}}
    \cup {[kind |-> "int", val |-> v] : v \in -1..MaxRows}

\* A Python value returned by get_last_processed_row.
IntValue(n) == [isint |-> TRUE, n |-> n]

NonIntValue == [isint |-> FALSE, n |-> 0]

\* Bug: the stored count is ignored and the default is returned.
get_last_processed_row_default(c) == [raised |-> FALSE, value |-> IntValue(0)]

\* get_last_processed_row on a blob of content c: the value returned, or
\* the exception that escapes it.
get_last_processed_row(c) ==
    CASE c.kind = "absent"    -> [raised |-> FALSE, value |-> IntValue(0)]
      [] c.kind = "badjson"   -> [raised |-> FALSE, value |-> IntValue(0)]
      [] c.kind = "nonobject" -> [raised |-> TRUE,  value |-> IntValue(0)]
      [] c.kind = "nofield"   -> [raised |-> FALSE, value |-> IntValue(0)]
      [] c.kind = "int"       -> [raised |-> FALSE, value |-> IntValue(c.val)]
      [] c.kind = "nonint"    -> [raised |-> FALSE, value |-> NonIntValue]

\* The blob content update_last_processed_row writes.
update_last_processed_row(row_count) == [kind |-> "int", val |-> row_count]

\* ------------------------------------------------------- delta extraction
\* Bug: the row count is compared for inequality, not for growth.
HasNewRows_differs(n, w) == n # w

\* Bug: an unchanged row count passes as new rows (>=).
HasNewRows_inclusive(n, w) == n >= w

\* len(df) > last_processed_row
HasNewRows(n, w) == n > w

\* Bug: the slice starts one row late (df.iloc[start + 1:]).
iloc_late(rows, start) == SubSeq(rows, start + 2, Len(rows))

\* df.iloc[start:] : a Python slice, negative start counted from the end.
iloc(rows, start) ==
    LET n == Len(rows)
        s == IF start < 0 THEN Max(0, n + start) ELSE Min(start, n)
    IN  SubSeq(rows, s + 1, n)

\* Bug: the watermark is set to the number of new rows (len(df_new)).
latest_row_count_new(rows, new_rows) == Len(new_rows)

\* latest_row_count = len(df)
latest_row_count(rows, new_rows) == Len(rows)

\* Bug: the load job replaces the table (WRITE_TRUNCATE).
write_truncate(old, rows) == [r \in DOMAIN old |-> Count(r, rows)]

\* What a WRITE_APPEND load job makes of the table.
write_append(old, rows) == [r \in DOMAIN old |-> old[r] + Count(r, rows)]

\* ---------------------------------------------------------------- state
Init ==
    /\ sheet = <<>>
    /\ nextRow = 1
    /\ clock = 0
    /\ blob = Absent
    /\ artifacts = {}
    /\ table = [r \in Rows |-> 0]
    /\ pc = [p \in Runs |-> "idle"]
    /\ outcome = [p \in Runs |-> "none"]
    /\ df = [p \in Runs |-> <<>>]
    /\ row_data = [p \in Runs |-> Absent]
    /\ last_processed_row = [p \in Runs |-> IntValue(0)]
    /\ df_new = [p \in Runs |-> <<>>]
    /\ parquet_file_name = [p \in Runs |-> 0]
    /\ load_output = [p \in Runs |-> <<>>]

locals == <<df, row_data, last_processed_row, df_new, parquet_file_name, load_output>>

\* The invocation returns normally (a return statement, or the end of the body).
Return(p, how) ==
    /\ pc' = [pc EXCEPT ![p] = "done"]
    /\ outcome' = [outcome EXCEPT ![p] = how]

\* An exception leaves hello_pubsub.
Raise(p) == Return(p, "exception")

Goto(p, label) ==
    /\ pc' = [pc EXCEPT ![p] = label]
    /\ UNCHANGED outcome

\* ------------------------------------------------------ the environment
AppendRow ==
    /\ nextRow <= MaxRows
    /\ sheet' = Append(sheet, nextRow)
    /\ nextRow' = nextRow + 1
    /\ UNCHANGED <<clock, blob, artifacts, table, pc, outcome, locals>>

DeleteRow ==
    \E i \in DOMAIN sheet :
        /\ sheet' = SubSeq(sheet, 1, i - 1) \o SubSeq(sheet, i + 1, Len(sheet))
        /\ UNCHANGED <<nextRow, clock, blob, artifacts, table, pc, outcome, locals>>

Tick ==
    /\ clock < MaxClock
    /\ clock' = clock + 1
    /\ UNCHANGED <<sheet, nextRow, blob, artifacts, table, pc, outcome, locals>>

\* Something other than this program rewrites the watermark blob.
Tamper ==
    /\ Size(table) + MaxRows <= MaxTable
    /\ \E c \in BlobContents : blob' = c /\ c # blob
    /\ UNCHANGED <<sheet, nextRow, clock, artifacts, table, pc, outcome, locals>>

\* ------------------------------------------------------- hello_pubsub
\* The trigger delivers an event: a new invocation starts.
Trigger(p) ==
    /\ pc[p] \in {"idle", "done"}
    /\ pc' = [pc EXCEPT ![p] = "auth"]
    /\ outcome' = [outcome EXCEPT ![p] = "running"]
    /\ df' = [df EXCEPT ![p] = <<>>]
    /\ row_data' = [row_data EXCEPT ![p] = Absent]
    /\ last_processed_row' = [last_processed_row EXCEPT ![p] = IntValue(0)]
    /\ df_new' = [df_new EXCEPT ![p] = <<>>]
    /\ parquet_file_name' = [parquet_file_name EXCEPT ![p] = 0]
    /\ load_output' = [load_output EXCEPT ![p] = <<>>]
    /\ UNCHANGED shared

\* Decoding the event, loading the credentials, gspread.authorize: no try.
Auth(p) ==
    /\ pc[p] = "auth"
    /\ \/ Goto(p, "fetch")
       \/ Raise(p)
    /\ UNCHANGED <<shared, locals>>

\* try: open the sheet, get_all_records, df.empty  except Exception: return
Fetch(p) ==
    /\ pc[p] = "fetch"
    /\ \/ /\ sheet # <<>>
          /\ df' = [df EXCEPT ![p] = sheet]
          /\ Goto(p, "storage_client")
       \/ /\ sheet = <<>>
          /\ Return(p, "no_data")
          /\ UNCHANGED df
       \/ /\ Return(p, "fetch_failed")
          /\ UNCHANGED df
    /\ UNCHANGED <<shared, row_data, last_processed_row, df_new, parquet_file_name, load_output>>

\* storage.Client(): no try.
StorageClient(p) ==
    /\ pc[p] = "storage_client"
    /\ \/ Goto(p, "read_watermark")
       \/ Raise(p)
    /\ UNCHANGED <<shared, locals>>

\* last_processed_row = get_last_processed_row(storage_client): no try.
ReadWatermark(p) ==
    /\ pc[p] = "read_watermark"
    /\ \/ /\ ~get_last_processed_row(blob).raised
          /\ row_data' = [row_data EXCEPT ![p] = blob]
          /\ last_processed_row' =
                 [last_processed_row EXCEPT ![p] = get_last_processed_row(blob).value]
          /\ Goto(p, "compare")
       \/ /\ get_last_processed_row(blob).raised
          /\ row_data' = [row_data EXCEPT ![p] = blob]
          /\ UNCHANGED last_processed_row
          /\ Raise(p)
       \/ /\ UNCHANGED <<row_data, last_processed_row>>
          /\ Raise(p)
    /\ UNCHANGED <<shared, df, df_new, parquet_file_name, load_output>>

\* if len(df) > last_processed_row: df_new = df.iloc[last_processed_row:]
\* else: return.  Comparing with, or slicing by, a non-integer raises.
Compare(p) ==
    /\ pc[p] = "compare"
    /\ \/ /\ last_processed_row[p].isint
          /\ HasNewRows(Len(df[p]), last_processed_row[p].n)
          /\ df_new' = [df_new EXCEPT ![p] = iloc(df[p], last_processed_row[p].n)]
          /\ Goto(p, "persist")
       \/ /\ last_processed_row[p].isint
          /\ ~HasNewRows(Len(df[p]), last_processed_row[p].n)
          /\ Return(p, "no_new_rows")
          /\ UNCHANGED df_new
       \/ /\ ~last_processed_row[p].isint
          /\ Raise(p)
          /\ UNCHANGED df_new
    /\ UNCHANGED <<shared, df, row_data, last_processed_row, parquet_file_name, load_output>>

\* update_last_processed_row(storage_client, latest_row_count): no try.
Persist(p) ==
    /\ pc[p] = "persist"
    /\ \/ /\ blob' = update_last_processed_row(latest_row_count(df[p], df_new[p]))
          /\ Goto(p, "serialize")
       \/ /\ UNCHANGED blob
          /\ Raise(p)
    /\ UNCHANGED <<sheet, nextRow, clock, artifacts, table, locals>>

\* timestamp = now().strftime('%Y%m%d_%H%M%S'); try: df_new.to_parquet(...)
Serialize(p) ==
    /\ pc[p] = "serialize"
    /\ parquet_file_name' = [parquet_file_name EXCEPT ![p] = clock]
    /\ \/ Goto(p, "upload")
       \/ Return(p, "serialize_failed")
    /\ UNCHANGED <<shared, df, row_data, last_processed_row, df_new, load_output>>

\* The bucket after blob.upload_from_filename: the object of that name is
\* created, or replaced when it exists.
upload_from_filename(objects, name, rows) ==
    {a \in objects : a.name # name} \cup {[name |-> name, rows |-> rows]}

\* try: blob.upload_from_filename(local_parquet_file)  except Exception: return
Upload(p) ==
    /\ pc[p] = "upload"
    /\ \/ /\ artifacts' = upload_from_filename(artifacts, parquet_file_name[p], df_new[p])
          /\ Goto(p, "bq_client")
       \/ /\ UNCHANGED artifacts
          /\ Return(p, "upload_failed")
    /\ UNCHANGED <<sheet, nextRow, clock, blob, table, locals>>

\* bigquery.Client(): no try.
BqClient(p) ==
    /\ pc[p] = "bq_client"
    /\ \/ Goto(p, "load")
       \/ Raise(p)
    /\ UNCHANGED <<shared, locals>>

\* try: load_table_from_uri(gs://.../parquet_file_name); load_job.result()
\* except Exception: print.  The job reads the object the URI names.
Load(p) ==
    /\ pc[p] = "load"
    /\ \/ \E a \in artifacts :
             /\ a.name = parquet_file_name[p]
             /\ table' = write_append(table, a.rows)
             /\ load_output' = [load_output EXCEPT ![p] = a.rows]
             /\ Return(p, "success")
       \/ /\ UNCHANGED <<table, load_output>>
          /\ Return(p, "load_failed")
    /\ UNCHANGED <<sheet, nextRow, clock, blob, artifacts, df, row_data,
                   last_processed_row, df_new, parquet_file_name>>

\* The body of hello_pubsub, one disjunct per step.
Body(p) ==
    \/ Auth(p)
    \/ Fetch(p)
    \/ StorageClient(p)
    \/ ReadWatermark(p)
    \/ Compare(p)
    \/ Persist(p)
    \/ Serialize(p)
    \/ Upload(p)
    \/ BqClient(p)
    \/ Load(p)

hello_pubsub(p) == Trigger(p) \/ Body(p)

\* The first event delivered to invocation slot p.
FirstTrigger(p) == pc[p] = "idle" /\ Trigger(p)

\* -------------------------------------------------------- specifications
\* One invocation at a time; rows are appended to and deleted from the sheet.
Next == AppendRow \/ DeleteRow \/ Tick \/ hello_pubsub(1)

Spec == Init /\ [][Next]_vars

\* One invocation at a time on a sheet that only grows.
NextAppendOnly == AppendRow \/ Tick \/ hello_pubsub(1)

SpecAppendOnly == Init /\ [][NextAppendOnly]_vars

\* One invocation at a time on a sheet that only grows; the watermark blob
\* can be rewritten from outside.
NextTamper == AppendRow \/ Tick \/ Tamper \/ hello_pubsub(1)

SpecTamper == Init /\ [][NextTamper]_vars

\* Two events are delivered and their invocations overlap at will, on a
\* sheet that only grows.
NextOverlap == AppendRow \/ Tick \/ (\E p \in Runs : FirstTrigger(p) \/ Body(p))

SpecOverlap == Init /\ [][NextOverlap]_vars

\* ------------------------------------------------------------- properties
\* The row count the watermark blob records (0 while there is no blob).
Watermark == IF blob.kind = "int" THEN blob.val ELSE 0

\* Steps of an invocation after the watermark write.
AfterPersist == {"serialize", "upload", "bq_client", "load"}

\* Steps of an invocation before the watermark write.
BeforePersist == {"auth", "fetch", "storage_client", "read_watermark", "compare"}

FailedAfterPersist == {"serialize_failed", "upload_failed", "load_failed"}

\* C1: in a run that found new rows, the watermark blob already holds n =
\* len(df) when the upload and the load job are still to come, and when the
\* upload or the load job has failed the run has ended with the blob holding n
\* and none of the rows of df_new in the table.
C1_WatermarkWrittenBeforeUploadAndLoad ==
    \A p \in Runs :
        /\ pc[p] \in {"upload", "bq_client", "load"}
             => /\ blob = [kind |-> "int", val |-> Len(df[p])]
                /\ Len(df[p]) > last_processed_row[p].n
        /\ outcome[p] \in {"upload_failed", "load_failed"}
             => /\ pc[p] = "done"
                /\ blob = [kind |-> "int", val |-> Len(df[p])]
                /\ df_new[p] # <<>>
                /\ \A r \in Range(df_new[p]) : table[r] = 0

\* C1 witness: a run that read watermark 1 and a sheet of 3 rows wrote
\* watermark 3, uploaded, and its load job failed: rows 2..3 are not loaded.
C1_Witness ==
    /\ outcome[1] = "load_failed"
    /\ last_processed_row[1].n = 1
    /\ Len(df[1]) = 3
    /\ blob.val = 3
    /\ table[2] = 0 /\ table[3] = 0

\* C2: the delta is rows[w:] in sheet order, of length n - w, when w < n, and
\* the run stops with an empty delta when w >= n: its length is max(0, n - w).
C2_DeltaIsSuffix ==
    \A p \in Runs :
        LET n == Len(df[p])
            w == last_processed_row[p].n
            decided == pc[p] \in {"persist"} \cup AfterPersist
                       \/ outcome[p] \in FailedAfterPersist \cup {"success", "no_new_rows"}
        IN  decided =>
              /\ w >= 0
              /\ Len(df_new[p]) = Max(0, n - w)
              /\ \A i \in 1..(n - w) : df_new[p][i] = df[p][w + i]
              /\ (w >= n) <=> (outcome[p] = "no_new_rows")

\* C2 witness: three rows read, watermark 1, delta extracted.
C2_Witness ==
    /\ pc[1] = "persist"
    /\ last_processed_row[1].n = 1
    /\ Len(df[1]) = 3
    /\ Len(df_new[1]) = 2

\* C3: no step lowers the watermark the blob holds, whether the sheet grows
\* or shrinks between runs and whatever step fails.
C3_WatermarkNeverDecreases ==
    [][Watermark' >= Watermark]_vars

\* C3 witness: the watermark was written twice (0 -> 2 -> 3), the sheet
\* then shrank below it, and a run on the shorter sheet ended.
C3_Witness ==
    /\ blob = [kind |-> "int", val |-> 3]
    /\ Cardinality(artifacts) = 2
    /\ outcome[1] = "no_new_rows"
    /\ Len(df[1]) = 1
    /\ last_processed_row[1].n = 3

\* C4: no exception leaves hello_pubsub.
C4_NoExceptionEscapes == \A p \in Runs : outcome[p] # "exception"

\* C5: a run that ends before the watermark write (fetch failed, empty
\* sheet, or n <= w) changes neither the watermark blob, nor the artifacts,
\* nor the table, and returns normally; only a run with n > w gets further.
C5_EarlyExitChangesNothing ==
    /\ [](\A p \in Runs :
            /\ pc[p] \in {"persist"} \cup AfterPersist
                 => Len(df[p]) > last_processed_row[p].n /\ df[p] # <<>>
            /\ outcome[p] \in {"fetch_failed", "no_data", "no_new_rows"}
                 => pc[p] = "done")
    /\ [][\A p \in Runs :
            /\ (pc[p] \in BeforePersist /\ pc'[p] # pc[p])
                 => UNCHANGED <<blob, artifacts, table>>
            /\ (pc[p] = "fetch" /\ pc'[p] # pc[p] /\ sheet = <<>>)
                 => outcome'[p] \in {"fetch_failed", "no_data"}
            /\ (pc[p] = "compare" /\ pc'[p] # pc[p]
                  /\ Len(df[p]) <= last_processed_row[p].n)
                 => outcome'[p] = "no_new_rows"]_vars

\* C5 witness: the sheet shrank from 3 rows to 2 while the watermark is 3,
\* and the run ended with nothing new.
C5_Witness ==
    /\ outcome[1] = "no_new_rows"
    /\ last_processed_row[1].n = 3
    /\ Len(df[1]) = 2
    /\ blob = [kind |-> "int", val |-> 3]

\* A well-formed record: {"last_processed_row": <non-negative integer>}.
WellFormed(c) == c.kind = "int" /\ c.val >= 0

\* C6: whatever the blob holds that is not a well-formed record,
\* get_last_processed_row returns 0 without raising, and the run goes on
\* with watermark 0.
C6_MalformedRecordReadsAsZero ==
    \A p \in Runs :
        (pc[p] # "read_watermark" /\ ~WellFormed(row_data[p]))
          => /\ ~get_last_processed_row(row_data[p]).raised
             /\ last_processed_row[p] = IntValue(0)

\* C7: a run in which every step succeeds ends with the watermark n, one
\* new artifact holding the rows w..n-1 in sheet order, and those rows
\* appended once to the table.
C7_SuccessfulRun ==
    [][\A p \in Runs :
         /\ (pc[p] = "upload" /\ pc'[p] = "bq_client")
              => /\ Cardinality(artifacts') = Cardinality(artifacts) + 1
                 /\ \E a \in artifacts' \ artifacts :
                       a.rows = iloc(df[p], last_processed_row[p].n)
         /\ (pc[p] = "load" /\ outcome'[p] = "success")
              => /\ blob' = [kind |-> "int", val |-> Len(df[p])]
                 /\ \A r \in Rows :
                       table'[r] = table[r]
                           + Count(r, iloc(df[p], last_processed_row[p].n))]_vars

\* C8: when two overlapping runs have both loaded a row, the table holds
\* that row more than once: nothing keeps the second load from appending it.
C8_OverlapLoadsTwice ==
    \A p, q \in Runs :
        (p # q /\ outcome[p] = "success" /\ outcome[q] = "success")
          => \A r \in Range(load_output[p]) \cap Range(load_output[q]) : table[r] >= 2

\* C8 witness: both runs read watermark 0 before either wrote it, both
\* extracted rows 1..2, both uploaded and loaded them.
C8_Witness ==
    /\ outcome[1] = "success" /\ outcome[2] = "success"
    /\ last_processed_row[1] = IntValue(0) /\ last_processed_row[2] = IntValue(0)
    /\ row_data[1] = Absent /\ row_data[2] = Absent
    /\ df_new[1] = <<1, 2>> /\ df_new[2] = <<1, 2>>
    /\ load_output[1] = <<1, 2>> /\ load_output[2] = <<1, 2>>
    /\ parquet_file_name[1] # parquet_file_name[2]
    /\ Cardinality(artifacts) = 2
    /\ table[1] = 2 /\ table[2] = 2

\* C9: with one run at a time on a sheet that only grows, no row is in the
\* table more than once, and every row in it lies below the watermark.
C9_AtMostOnce ==
    \A r \in Rows :
        /\ table[r] <= 1
        /\ table[r] = 1 => r <= Watermark

\* C9 witness: three runs; the second failed after its watermark write, so
\* row 2 is missing, and rows 1 and 3 are in the table once.
C9_Witness ==
    /\ table[1] = 1 /\ table[2] = 0 /\ table[3] = 1
    /\ Watermark = 3
    /\ outcome[1] = "success"

\* Row r lies below the watermark, is not in the table, and no run in
\* progress carries it.
Dropped(r) ==
    /\ r <= Watermark
    /\ table[r] = 0
    /\ \A p \in Runs : outcome[p] = "running" => r \notin Range(df_new[p])

\* C10: once a run has advanced the watermark past a row and failed before
\* loading it, no later run extracts, uploads or loads that row.
C10_DroppedBatchStaysDropped ==
    [][\A r \in Rows : Dropped(r) => Dropped(r)']_vars

\* C10 witness: a run wrote watermark 2 and failed; the next run started
\* from 2, loaded row 3 only, and rows 1..2 are still missing.
C10_Witness ==
    /\ outcome[1] = "success"
    /\ last_processed_row[1].n = 2
    /\ load_output[1] = <<3>>
    /\ Dropped(1) /\ Dropped(2)
    /\ table[3] = 1

====
